---- MODULE Spec2Model ----
(***************************************************************************)
(* Model of sage.algebras.tensor_algebra: the tensor algebra T(M) of a     *)
(* module M with basis, its Hopf operations, its element constructors and  *)
(* its coercion query.                                                     *)
(*                                                                         *)
(* The algebra is a stateless factory of pure functions.  A behaviour is   *)
(* one call: the initial state holds the operation and its argument        *)
(* (pc = "call"), and the action of that operation stores what the code    *)
(* returns or raises (pc = "done").                                        *)
(***************************************************************************)
EXTENDS Integers, Sequences, FiniteSets, TLC

VARIABLES pc, op, arg, out

vars == <<pc, op, arg, out>>

(***************************************************************************)
(* Bounds.                                                                 *)
(***************************************************************************)
NumGens == 2        \* size of the base module's index set 1..NumGens
MaxLen == 4         \* longest basis word given to the Hopf operations
MaxCoef == 2        \* largest coefficient of an input element
MaxEltLen == 2      \* longest word in an input element of T(M)
MaxFactors == 2     \* most factors of a tensor product

Indices == 1..NumGens
Coefs == {-1} \cup (1..MaxCoef)
ModCoefs == {-1, MaxCoef}

(***************************************************************************)
(* The free monoid on the index set (IndexedFreeMonoid).  An element is    *)
(* its _monomial: a sequence of <<generator, exponent>> runs, adjacent     *)
(* runs having different generators.                                       *)
(***************************************************************************)
FM_one == <<>>

FM_gen(x) == << <<x, 1>> >>

\* a * b in the monoid: concatenation, merging the runs that meet
FM_mul(a, b) ==
    IF a = <<>> THEN b
    ELSE IF b = <<>> THEN a
    ELSE IF a[Len(a)][1] = b[1][1]
         THEN SubSeq(a, 1, Len(a) - 1)
              \o << <<b[1][1], a[Len(a)][2] + b[1][2]>> >>
              \o SubSeq(b, 2, Len(b))
         ELSE a \o b

\* FM.prod(s): the product of a sequence of monoid elements, left to right
RECURSIVE FM_prod(_)
FM_prod(s) ==
    IF s = <<>> THEN FM_one
    ELSE FM_mul(FM_prod(SubSeq(s, 1, Len(s) - 1)), s[Len(s)])

\* len(m): the total length, counting exponents
RECURSIVE FM_len(_)
FM_len(m) ==
    IF m = <<>> THEN 0 ELSE m[1][2] + FM_len(Tail(m))

\* [k for k,e in m._monomial for dummy in range(e)]
RECURSIVE to_word_list(_)
to_word_list(m) ==
    IF m = <<>> THEN <<>>
    ELSE [i \in 1..m[1][2] |-> m[1][1]] \o to_word_list(Tail(m))

\* reversed(s)
reversed(s) == [i \in 1..Len(s) |-> s[Len(s) + 1 - i]]

\* the word of a flat sequence of indices
WordOf(f) == FM_prod([i \in 1..Len(f) |-> FM_gen(f[i])])

FlatWords(n) == UNION {[1..k -> Indices] : k \in 0..n}

Words(n) == {WordOf(f) : f \in FlatWords(n)}

(***************************************************************************)
(* Elements of a free module: a function from the basis indices of its     *)
(* support to their nonzero coefficients (the monomial_coefficients dict). *)
(***************************************************************************)
Zero == <<>>

\* d.get(k, default)
DictGet(d, k, default) == IF k \in DOMAIN d THEN d[k] ELSE default

\* d[k] = v
DictSet(d, k, v) == (k :> v) @@ d

\* _from_dict(d): the element of dictionary d, its zero entries removed
from_dict(d) == [k \in {j \in DOMAIN d : d[j] # 0} |-> d[k]] @@ <<>>

\* term(m, c)
term(m, c) == from_dict(DictSet(Zero, m, c))

\* monomial(m)
monomial(m) == term(m, 1)

\* x + c * B[k]
AddTerm(x, k, c) == from_dict(DictSet(x, k, DictGet(x, k, 0) + c))

\* x + c * y
axpy(x, c, y) ==
    from_dict([k \in (DOMAIN x) \cup (DOMAIN y) |->
                  DictGet(x, k, 0) + c * DictGet(y, k, 0)])

\* sum_of_terms(s), s a sequence of <<index, coefficient>>
RECURSIVE sum_of_terms(_)
sum_of_terms(s) ==
    IF s = <<>> THEN Zero
    ELSE AddTerm(sum_of_terms(SubSeq(s, 1, Len(s) - 1)),
                 s[Len(s)][1], s[Len(s)][2])

\* sum_of_monomials(s), s a sequence of indices
sum_of_monomials(s) == sum_of_terms([i \in 1..Len(s) |-> <<s[i], 1>>])

\* the items of dictionary d on the keys ks, in iteration order
RECURSIVE items_on(_, _)
items_on(d, ks) ==
    IF ks = {} THEN <<>>
    ELSE LET k == CHOOSE j \in ks : TRUE
         IN  << <<k, d[k]>> >> \o items_on(d, ks \ {k})

\* d.items()
items(d) == items_on(d, DOMAIN d)

\* input elements on the basis B: zero, the terms and the sums of two terms
ElementsOn(B) ==
    UNION {[S -> Coefs] : S \in {{}} \cup {{a, b} : a \in B, b \in B}}

\* input elements of the base module M, their coefficients in ModCoefs
ModElts ==
    UNION {[S -> ModCoefs] :
              S \in {{}} \cup {{a, b} : a \in Indices, b \in Indices}}

(***************************************************************************)
(* The tensor algebra T(M).                                                *)
(***************************************************************************)
one_basis == FM_one

one == monomial(one_basis)

\* mutant: the second word is appended backwards
product_on_basis_rev(a, b) == monomial(FM_mul(a, reversed(b)))

product_on_basis(a, b) == monomial(FM_mul(a, b))

\* mutant: the degree is the number of runs of m
degree_on_basis_runs(m) == Len(m)

degree_on_basis(m) == FM_len(m)

\* the tensor square S: its basis is indexed by pairs of words, its
\* product is taken slot by slot
S_one == monomial(<<one_basis, one_basis>>)

S_product_on_basis(s, t) ==
    monomial(<<FM_mul(s[1], t[1]), FM_mul(s[2], t[2])>>)

\* for k,v in x: for m,c in y: the pairs of items, in loop order
ItemPairs(x, y) ==
    LET ix == items(x)
        iy == items(y)
    IN  [n \in 1..(Len(ix) * Len(iy)) |->
            <<ix[((n - 1) \div Len(iy)) + 1], iy[((n - 1) % Len(iy)) + 1]>>]

\* the bilinear extension of S_product_on_basis over the item pairs ps
RECURSIVE S_product_acc(_)
S_product_acc(ps) ==
    IF ps = <<>> THEN Zero
    ELSE IF Len(ps) = 1
         THEN axpy(Zero, ps[1][1][2] * ps[1][2][2],
                   S_product_on_basis(ps[1][1][1], ps[1][2][1]))
         ELSE LET h == Len(ps) \div 2
              IN  axpy(S_product_acc(SubSeq(ps, 1, h)), 1,
                       S_product_acc(SubSeq(ps, h + 1, Len(ps))))

S_product(x, y) == S_product_acc(ItemPairs(x, y))

\* the bilinear extension of product_on_basis over the item pairs ps
RECURSIVE product_acc(_)
product_acc(ps) ==
    IF ps = <<>> THEN Zero
    ELSE IF Len(ps) = 1
         THEN axpy(Zero, ps[1][1][2] * ps[1][2][2],
                   product_on_basis(ps[1][1][1], ps[1][2][1]))
         ELSE LET h == Len(ps) \div 2
              IN  axpy(product_acc(SubSeq(ps, 1, h)), 1,
                       product_acc(SubSeq(ps, h + 1, Len(ps))))

product(x, y) == product_acc(ItemPairs(x, y))

\* S.prod(s): the product of a sequence of elements of S, left to right
RECURSIVE S_prod(_)
S_prod(s) ==
    IF s = <<>> THEN S_one
    ELSE S_product(S_prod(SubSeq(s, 1, Len(s) - 1)), s[Len(s)])

\* mutant: the sum of all the coefficients of x
RECURSIVE counit_sum_on(_, _)
counit_sum_on(x, ks) ==
    IF ks = {} THEN 0
    ELSE LET k == CHOOSE j \in ks : TRUE
         IN  x[k] + counit_sum_on(x, ks \ {k})

counit_sum(x) == counit_sum_on(x, DOMAIN x)

counit(x) == DictGet(x, one_basis, 0)

\* mutant: the sign is taken from the number of runs of m
antipode_on_basis_runs(m) ==
    LET r == reversed(m)
    IN  IF Len(r) % 2 = 1 THEN term(r, -1) ELSE term(r, 1)

\* mutant: the exponents of the runs are lost
antipode_on_basis_noexp(m) ==
    LET r == FM_prod([i \in 1..Len(m) |-> FM_gen(m[Len(m) + 1 - i][1])])
    IN  IF FM_len(m) % 2 = 1 THEN term(r, -1) ELSE term(r, 1)

\* mutant: the word is not reversed
antipode_on_basis_noreverse(m) ==
    IF FM_len(m) % 2 = 1 THEN term(m, -1) ELSE term(m, 1)

antipode_on_basis(m) ==
    LET r == reversed(m)
    IN  IF FM_len(r) % 2 = 1 THEN term(r, -1) ELSE term(r, 1)

\* mutant: m_word lists each run of m once
coproduct_on_basis_runs(m) ==
    IF FM_len(m) = 0 THEN S_one
    ELSE IF FM_len(m) = 1
         THEN sum_of_monomials(<< <<m, one_basis>>, <<one_basis, m>> >>)
         ELSE LET m_word == [i \in 1..Len(m) |-> m[i][1]]
                  ob == one_basis
              IN  S_prod([i \in 1..Len(m_word) |->
                     sum_of_monomials(<< <<FM_gen(m_word[i]), ob>>,
                                         <<ob, FM_gen(m_word[i])>> >>)])

\* mutant: a generator has the term (m, ob) twice and no term (ob, m)
coproduct_on_basis_left(m) ==
    IF FM_len(m) = 0 THEN S_one
    ELSE IF FM_len(m) = 1
         THEN sum_of_monomials(<< <<m, one_basis>>, <<m, one_basis>> >>)
         ELSE LET m_word == to_word_list(m)
                  ob == one_basis
              IN  S_prod([i \in 1..Len(m_word) |->
                     sum_of_monomials(<< <<FM_gen(m_word[i]), ob>>,
                                         <<ob, FM_gen(m_word[i])>> >>)])

\* mutant: the product runs over the word backwards
coproduct_on_basis_backwards(m) ==
    IF FM_len(m) = 0 THEN S_one
    ELSE IF FM_len(m) = 1
         THEN sum_of_monomials(<< <<m, one_basis>>, <<one_basis, m>> >>)
         ELSE LET m_word == reversed(to_word_list(m))
                  ob == one_basis
              IN  S_prod([i \in 1..Len(m_word) |->
                     sum_of_monomials(<< <<FM_gen(m_word[i]), ob>>,
                                         <<ob, FM_gen(m_word[i])>> >>)])

coproduct_on_basis(m) ==
    IF FM_len(m) = 0 THEN S_one
    ELSE IF FM_len(m) = 1
         THEN sum_of_monomials(<< <<m, one_basis>>, <<one_basis, m>> >>)
         ELSE LET m_word == to_word_list(m)
                  ob == one_basis
              IN  S_prod([i \in 1..Len(m_word) |->
                     sum_of_monomials(<< <<FM_gen(m_word[i]), ob>>,
                                         <<ob, FM_gen(m_word[i])>> >>)])

\* the linear extension of coproduct_on_basis to the elements of T(M)
RECURSIVE coproduct_acc(_)
coproduct_acc(s) ==
    IF s = <<>> THEN Zero
    ELSE axpy(coproduct_acc(SubSeq(s, 1, Len(s) - 1)),
              s[Len(s)][2], coproduct_on_basis(s[Len(s)][1]))

coproduct(x) == coproduct_acc(items(x))

\* the linear extension of antipode_on_basis to the elements of T(M)
RECURSIVE antipode_acc(_)
antipode_acc(s) ==
    IF s = <<>> THEN Zero
    ELSE axpy(antipode_acc(SubSeq(s, 1, Len(s) - 1)),
              s[Len(s)][2], antipode_on_basis(s[Len(s)][1]))

antipode(x) == antipode_acc(items(x))

(***************************************************************************)
(* Calls.                                                                  *)
(***************************************************************************)
None == [status |-> "none", val |-> <<>>]

Ok(v) == [status |-> "ok", val |-> v]

Error == [status |-> "error", val |-> <<>>]

InitHopf ==
    /\ pc = "call"
    /\ out = None
    /\ \/ op = "coproduct_on_basis" /\ arg \in Words(MaxLen)
       \/ op = "antipode_on_basis" /\ arg \in Words(MaxLen)
       \/ op = "coproduct" /\ arg \in ElementsOn(Words(MaxEltLen))
       \/ op = "counit" /\ arg \in ElementsOn(Words(MaxEltLen))
       \/ op = "product_on_basis" /\ arg \in Words(MaxEltLen) \X Words(MaxEltLen)
       \/ op = "degree_on_basis" /\ arg \in Words(MaxLen)

Return(v) ==
    /\ pc = "call"
    /\ pc' = "done"
    /\ out' = v
    /\ UNCHANGED <<op, arg>>

CoproductOnBasis == op = "coproduct_on_basis" /\ Return(Ok(coproduct_on_basis(arg)))

AntipodeOnBasis == op = "antipode_on_basis" /\ Return(Ok(antipode_on_basis(arg)))

Coproduct == op = "coproduct" /\ Return(Ok(coproduct(arg)))

Counit == op = "counit" /\ Return(Ok(counit(arg)))

ProductOnBasis ==
    op = "product_on_basis" /\ Return(Ok(product_on_basis(arg[1], arg[2])))

DegreeOnBasis == op = "degree_on_basis" /\ Return(Ok(degree_on_basis(arg)))

NextHopf ==
    \/ CoproductOnBasis
    \/ AntipodeOnBasis
    \/ Coproduct
    \/ Counit
    \/ ProductOnBasis
    \/ DegreeOnBasis

SpecHopf == InitHopf /\ [][NextHopf]_vars

(***************************************************************************)
(* Construction of elements.                                               *)
(***************************************************************************)
\* mutant: the accumulation reads cur at the partial word k
RECURSIVE tensor_round_wrongkey(_, _)
tensor_round_wrongkey(cur, ps) ==
    IF ps = <<>> THEN Zero
    ELSE LET p == ps[Len(ps)]
             i == FM_mul(p[1][1], FM_gen(p[2][1]))
         IN  DictSet(tensor_round_wrongkey(cur, SubSeq(ps, 1, Len(ps) - 1)),
                     i, DictGet(cur, p[1][1], 0) + p[1][2] * p[2][2])

\* one round of the loop of _tensor_constructor_:
\* for k,v in cur.items(): for m,c in x: ...; ps is the pairs of items
RECURSIVE tensor_round(_, _)
tensor_round(cur, ps) ==
    IF ps = <<>> THEN Zero
    ELSE LET p == ps[Len(ps)]
             i == FM_mul(p[1][1], FM_gen(p[2][1]))
         IN  DictSet(tensor_round(cur, SubSeq(ps, 1, Len(ps) - 1)),
                     i, DictGet(cur, i, 0) + p[1][2] * p[2][2])

\* for x in elts: cur = next
RECURSIVE tensor_rounds(_, _)
tensor_rounds(cur, elts) ==
    IF elts = <<>> THEN cur
    ELSE tensor_rounds(tensor_round(cur, ItemPairs(cur, elts[1])), Tail(elts))

\* {I.gen(k): v for k,v in x}
RECURSIVE gen_dict(_)
gen_dict(it) ==
    IF it = <<>> THEN Zero
    ELSE DictSet(gen_dict(SubSeq(it, 1, Len(it) - 1)),
                 FM_gen(it[Len(it)][1]), it[Len(it)][2])

\* mutant: the loop runs over elts, not over elts[1:]
tensor_constructor_all(elts) ==
    IF elts = <<>> THEN one
    ELSE from_dict(tensor_rounds(gen_dict(items(elts[1])), elts))

tensor_constructor(elts) ==
    IF elts = <<>> THEN one
    ELSE from_dict(tensor_rounds(gen_dict(items(elts[1])), Tail(elts)))

\* the fallback CombinatorialFreeModule._element_constructor_
CFM_element_constructor(x) == Error

\* mutant: the word of a sequence is built run by run, without FM.prod
element_constructor_nomerge(x) ==
    IF x.parent = "list"
    THEN IF \A i \in 1..Len(x.val) : x.val[i] \in Indices
         THEN Ok(monomial([i \in 1..Len(x.val) |-> <<x.val[i], 1>>]))
         ELSE Error
    ELSE IF x.parent \in {"ring", "subring", "object"} /\ x.val \in Indices
    THEN Ok(monomial(FM_gen(x.val)))
    ELSE IF x.parent = "module"
    THEN LET it == items(x.val)
         IN  Ok(sum_of_terms([i \in 1..Len(it) |-> <<FM_gen(it[i][1]), it[i][2]>>]))
    ELSE CFM_element_constructor(x)

\* mutant: an input of no supported shape gives zero
element_constructor_zero(x) ==
    IF x.parent = "list"
    THEN IF \A i \in 1..Len(x.val) : x.val[i] \in Indices
         THEN Ok(monomial(FM_prod([i \in 1..Len(x.val) |-> FM_gen(x.val[i])])))
         ELSE Error
    ELSE IF x.parent \in {"ring", "subring", "object"} /\ x.val \in Indices
    THEN Ok(monomial(FM_gen(x.val)))
    ELSE IF x.parent = "module"
    THEN LET it == items(x.val)
         IN  Ok(sum_of_terms([i \in 1..Len(it) |-> <<FM_gen(it[i][1]), it[i][2]>>]))
    ELSE Ok(Zero)

element_constructor(x) ==
    IF x.parent = "list"
    THEN IF \A i \in 1..Len(x.val) : x.val[i] \in Indices
         THEN Ok(monomial(FM_prod([i \in 1..Len(x.val) |-> FM_gen(x.val[i])])))
         ELSE Error
    ELSE IF x.parent \in {"ring", "subring", "object"} /\ x.val \in Indices
    THEN Ok(monomial(FM_gen(x.val)))
    ELSE IF x.parent = "module"
    THEN LET it == items(x.val)
         IN  Ok(sum_of_terms([i \in 1..Len(it) |-> <<FM_gen(it[i][1]), it[i][2]>>]))
    ELSE CFM_element_constructor(x)

\* BaseRingLift._call_
BaseRingLift_call(x) == term(FM_one, x)

(***************************************************************************)
(* Coercion.  A source R is described by what the query asks of it:        *)
(* its class, whether it is or coerces into the base ring, whether it is   *)
(* or coerces into the base module M, whether the base module of a tensor  *)
(* algebra R coerces into M, whether R is in the category of tensor        *)
(* products of modules with basis over the base ring, and for each factor  *)
(* of a tensor product R whether it coerces into M.                        *)
(***************************************************************************)
\* the fallback super()._coerce_map_from_
super_coerce_map_from(R) == "None"

\* mutant: the base ring is not tried first
coerce_map_from_nobase(R) ==
    IF R.isM THEN "True"
    ELSE IF R.toM THEN "coerce_map_from(M) * phi"
    ELSE IF R.cls = "TensorAlgebra" /\ R.baseToM
    THEN "module_morphism from a tensor algebra"
    ELSE IF /\ R.inTP
            /\ R.cls = "CombinatorialFreeModule_Tensor"
            /\ \A i \in 1..Len(R.sets) : R.sets[i]
    THEN "module_morphism from a tensor product"
    ELSE super_coerce_map_from(R)

\* mutant: any() of the factors in place of all()
coerce_map_from_any(R) ==
    IF R.isRing THEN "BaseRingLift"
    ELSE IF R.toRing THEN "BaseRingLift * coerce_map_from(R)"
    ELSE IF R.isM THEN "True"
    ELSE IF R.toM THEN "coerce_map_from(M) * phi"
    ELSE IF R.cls = "TensorAlgebra" /\ R.baseToM
    THEN "module_morphism from a tensor algebra"
    ELSE IF /\ R.inTP
            /\ R.cls = "CombinatorialFreeModule_Tensor"
            /\ \E i \in 1..Len(R.sets) : R.sets[i]
    THEN "module_morphism from a tensor product"
    ELSE super_coerce_map_from(R)

coerce_map_from(R) ==
    IF R.isRing THEN "BaseRingLift"
    ELSE IF R.toRing THEN "BaseRingLift * coerce_map_from(R)"
    ELSE IF R.isM THEN "True"
    ELSE IF R.toM THEN "coerce_map_from(M) * phi"
    ELSE IF R.cls = "TensorAlgebra" /\ R.baseToM
    THEN "module_morphism from a tensor algebra"
    ELSE IF /\ R.inTP
            /\ R.cls = "CombinatorialFreeModule_Tensor"
            /\ \A i \in 1..Len(R.sets) : R.sets[i]
    THEN "module_morphism from a tensor product"
    ELSE super_coerce_map_from(R)

Source(c, ir, tr, im, tm, bm, tp, fs) ==
    [cls |-> c, isRing |-> ir, toRing |-> tr, isM |-> im, toM |-> tm,
     baseToM |-> bm, inTP |-> tp, sets |-> fs]

\* the sources of the query: rings, modules with basis (M itself may be a
\* tensor product or a tensor algebra), tensor algebras, tensor products of
\* two or more modules, and other parents
Sources ==
    {Source("Ring", ir, TRUE, FALSE, FALSE, FALSE, FALSE, <<>>) : ir \in BOOLEAN}
    \cup {Source("Other", FALSE, tr, FALSE, tm, FALSE, FALSE, <<>>) :
             tr \in BOOLEAN, tm \in BOOLEAN}
    \cup {Source("Module", FALSE, tr, im, im \/ tm, FALSE, tp, <<>>) :
             tr \in BOOLEAN, im \in BOOLEAN, tm \in BOOLEAN, tp \in BOOLEAN}
    \cup {Source("TensorAlgebra", FALSE, tr, im, im \/ tm, bm, FALSE, <<>>) :
             tr \in BOOLEAN, im \in BOOLEAN, tm \in BOOLEAN, bm \in BOOLEAN}
    \cup UNION {{Source("CombinatorialFreeModule_Tensor", FALSE, FALSE, im, im \/ tm,
                        FALSE, tp, fs) :
                    im \in BOOLEAN, tm \in BOOLEAN, tp \in BOOLEAN} :
                fs \in UNION {[1..n -> BOOLEAN] : n \in 2..MaxFactors}}

\* parent(x)
ParentOf(x) ==
    CASE x.parent = "ring" ->
           Source("Ring", TRUE, TRUE, FALSE, FALSE, FALSE, FALSE, <<>>)
      [] x.parent = "subring" ->
           Source("Ring", FALSE, TRUE, FALSE, FALSE, FALSE, FALSE, <<>>)
      [] x.parent = "module" ->
           Source("Module", FALSE, FALSE, TRUE, TRUE, FALSE, FALSE, <<>>)
      [] OTHER ->
           Source("Other", FALSE, FALSE, FALSE, FALSE, FALSE, FALSE, <<>>)

\* TA(x): the conversion of x, by the coercion from its parent if there is
\* one, and by the element constructor otherwise
Call(x) ==
    LET c == coerce_map_from(ParentOf(x))
    IN  IF c \in {"BaseRingLift", "BaseRingLift * coerce_map_from(R)"}
        THEN Ok(BaseRingLift_call(x.val))
        ELSE element_constructor(x)

\* the inputs of a conversion: sequences, scalars and other objects
\* (0 and NumGens + 1 are outside the index set), elements of M
ListInputs ==
    {[parent |-> "list", val |-> l] :
        l \in UNION {[1..n -> 0..NumGens] : n \in 0..MaxEltLen}}

ScalarInputs ==
    {[parent |-> p, val |-> v] :
        p \in {"ring", "subring"}, v \in (-MaxCoef)..(NumGens + 1)}

ObjectInputs == {[parent |-> "object", val |-> v] : v \in 0..NumGens}

ModuleInputs == {[parent |-> "module", val |-> v] : v \in ModElts}

(***************************************************************************)
(* The map T(f) of a morphism f of base modules, f given on the basis.     *)
(***************************************************************************)
\* mutant: f is applied once to each run of m
functor_phi_runs(f, m) ==
    tensor_constructor([k \in 1..Len(m) |-> f[m[k][1]]])

\* phi of TensorAlgebraFunctor._apply_functor_to_morphism
functor_phi(f, m) ==
    LET w == to_word_list(m)
    IN  tensor_constructor([k \in 1..Len(w) |-> f[w[k]]])

\* the lambda of the coercion from a tensor algebra
coerce_phi(phi, m) ==
    LET w == to_word_list(m)
    IN  tensor_constructor([k \in 1..Len(w) |-> phi[w[k]]])

\* the images of a basis vector under an input morphism: zero, the terms,
\* and the multiples of the sum of the basis
FImages ==
    {Zero} \cup {term(k, c) : k \in Indices, c \in ModCoefs}
           \cup {[k \in Indices |-> c] : c \in ModCoefs}

(***************************************************************************)
(* The tensor algebra as an object, and its construction functor.  A       *)
(* module is its name, its base ring and whether it has a distinguished    *)
(* basis; a tensor algebra is what __init__ stores.                        *)
(***************************************************************************)
Modules == [name : {"C", "D"}, base_ring : {"ZZ", "QQ"}, with_basis : BOOLEAN]

ModulesWithBasis == {M \in Modules : M.with_basis}

Prefixes == {"T", "X"}

Categories == {"None", "Sub"}

\* the keyword options: the tensor symbol given, or "absent"
Options == {"absent", "(X)"}

tensor_symbol == "#"

R_category(R) == <<"category", R>>

or_subcategory(base, category) ==
    IF category = "None" THEN <<"GradedHopfAlgebrasWithBasis", base>>
    ELSE <<category, base>>

category_base(cat) == cat[2]

TensorAlgebra(M, prefix, category, options) ==
    [_base_module |-> M,
     prefix |-> prefix,
     category |-> or_subcategory(R_category(M.base_ring), category),
     tensor_symbol |-> IF options = "absent" THEN tensor_symbol ELSE options]

TensorAlgebras ==
    {TensorAlgebra(M, p, c, o) :
        M \in ModulesWithBasis, p \in Prefixes, c \in Categories, o \in Options}

TensorAlgebraFunctor(base) ==
    [domain |-> <<"Modules", base>>, codomain |-> <<"Algebras", base>>]

Functors == {TensorAlgebraFunctor(R_category(R)) : R \in {"ZZ", "QQ"}}

\* M in self.domain().WithBasis()
InDomainWithBasis(F, M) ==
    M.with_basis /\ R_category(M.base_ring) = F.domain[2]

apply_functor(F, M) ==
    IF ~InDomainWithBasis(F, M) THEN Error
    ELSE Ok(TensorAlgebra(M, "T", "None", "absent"))

construction(TA) ==
    <<TensorAlgebraFunctor(category_base(TA.category)), TA._base_module>>

InitConstruct ==
    /\ pc = "call"
    /\ out = None
    /\ \/ /\ op = "_tensor_constructor_"
          /\ arg \in UNION {[1..n -> ModElts] : n \in 0..MaxFactors}
       \/ /\ op = "__call__"
          /\ \/ arg \in ListInputs
             \/ arg \in ScalarInputs
             \/ arg \in ObjectInputs
             \/ arg \in ModuleInputs
       \/ op = "_coerce_map_from_" /\ arg \in Sources
       \/ /\ op \in {"_apply_functor_to_morphism", "coerce_from_tensor_algebra"}
          /\ arg \in [f : [Indices -> FImages], m : Words(MaxEltLen)]
       \/ op = "construction" /\ arg \in TensorAlgebras
       \/ op = "_apply_functor" /\ arg \in [F : Functors, M : Modules]

TensorConstructor ==
    op = "_tensor_constructor_" /\ Return(Ok(tensor_constructor(arg)))

ElementCall == op = "__call__" /\ Return(Call(arg))

CoerceMapFrom == op = "_coerce_map_from_" /\ Return(Ok(coerce_map_from(arg)))

ApplyFunctorToMorphism ==
    op = "_apply_functor_to_morphism" /\ Return(Ok(functor_phi(arg.f, arg.m)))

CoerceFromTensorAlgebra ==
    op = "coerce_from_tensor_algebra" /\ Return(Ok(coerce_phi(arg.f, arg.m)))

Construction == op = "construction" /\ Return(Ok(construction(arg)))

ApplyFunctor == op = "_apply_functor" /\ Return(apply_functor(arg.F, arg.M))

NextConstruct ==
    \/ TensorConstructor
    \/ ElementCall
    \/ CoerceMapFrom
    \/ ApplyFunctorToMorphism
    \/ CoerceFromTensorAlgebra
    \/ Construction
    \/ ApplyFunctor

SpecConstruct == InitConstruct /\ [][NextConstruct]_vars

(***************************************************************************)
(* import_statements (sage/misc/dev_tools.py).  The input of a call is the *)
(* argument list, the three options and the interpreter state the function *)
(* reads: the namespaces of the loaded modules, the attributes of the      *)
(* objects and what the two regular expressions find in the sources.       *)
(***************************************************************************)
MaxBindings == 2

MaxObjects == 2

\* sys.modules, in alphabetical order
ModuleNames == <<"__main__", "sage.all", "sage.pkg.all", "sage.pkg.mod">>

Mods == {ModuleNames[i] : i \in DOMAIN ModuleNames}

\* the names of the namespaces, in alphabetical order
NameOrder == <<"a", "b">>

Names == {NameOrder[i] : i \in DOMAIN NameOrder}

\* o1 is an object that is not a module, o2 is the module sage.pkg.mod
Objs == {"o1", "o2"}

Unbound == "-"

Slots == Mods \X Names

\* the namespaces of the modules: at most MaxBindings names are bound, and
\* the module o2 is bound under the name b only
Namespaces ==
    {ns \in [Slots -> Objs \cup {Unbound}] :
        /\ \A s \in Slots : ns[s] = "o2" => s[2] = "b"
        /\ Cardinality({s \in Slots : ns[s] # Unbound}) <= MaxBindings}

\* the owning module of o1 and whether o1 is a class instance
Attributes ==
    {[owner |-> "None", inst |-> FALSE],
     [owner |-> "sage.pkg.mod", inst |-> FALSE],
     [owner |-> "sage.pkg.mod", inst |-> TRUE]}

\* what the searches of the sources find: nothing, or a match for the name
\* a of the instantiation pattern or of the alias pattern, in the sources
\* of the modules mods
Sources_re ==
    {[kind |-> "none", mods |-> {}]}
    \cup [kind : {"inst", "alias"}, mods : {Mods}]

ImportArgs == {[isstr |-> FALSE, v |-> "o1"], [isstr |-> TRUE, v |-> "b"]}

Index(s, x) == CHOOSE i \in DOMAIN s : s[i] = x

\* x.count('.')
Dots(x) ==
    IF x = "__main__" THEN 0
    ELSE IF x = "sage.all" THEN 1
    ELSE 2

cmp(x, y) == IF x < y THEN -1 ELSE IF x > y THEN 1 ELSE 0

module_names_cmp(x, y) ==
    LET test == cmp(Dots(x), Dots(y))
    IN  IF test # 0 THEN test ELSE cmp(Index(ModuleNames, x), Index(ModuleNames, y))

\* sorted(S): the names of S in alphabetical order
sorted_names(S) ==
    LET RECURSIVE go(_)
        go(i) == IF i > Len(NameOrder) THEN <<>>
                 ELSE (IF NameOrder[i] \in S THEN <<NameOrder[i]>> ELSE <<>>) \o go(i + 1)
    IN  go(1)

\* sorted(S, cmp=module_names_cmp, reverse=True)
sorted_modules(S) ==
    IF S = {} THEN <<>>
    ELSE CHOOSE s \in [1..Cardinality(S) -> S] :
            /\ \A i, j \in DOMAIN s : i # j => s[i] # s[j]
            /\ \A i, j \in DOMAIN s : i < j => module_names_cmp(s[i], s[j]) > 0

\* x.endswith('all') or x.endswith('all_cmdline')
endswith_all(x) == x \in {"sage.all", "sage.pkg.all"}

\* module[:module.rindex('.')] + '.all', or module when it has no dot
dot_all(module) ==
    IF module = "__main__" THEN "__main__"
    ELSE IF module = "sage.all" THEN "sage.all"
    ELSE "sage.pkg.all"

Line(kind, module, name, names) ==
    [kind |-> kind, module |-> module, name |-> name, names |-> names]

print_import_statement(module, name, lazy) ==
    Line(IF lazy THEN "lazy_import" ELSE "from", module, name, <<>>)

ismodule(obj) == obj = "o2"

isclassinstance(e, obj) == obj = "o1" /\ e.attr.inst

\* the owning module of obj: of its class for an instance, else obj.__module__
owner_module(e, obj) == IF obj = "o1" THEN e.attr.owner ELSE "None"

\* [key for key in d if d[key] is obj], d the namespace of module
keys_of(e, module, obj) == {n \in Names : e.ns[<<module, n>>] = obj}

Stmt(obj, name, warnings, line) ==
    [raised |-> FALSE, obj |-> obj, name |-> name, warnings |-> warnings,
     stmt |-> <<line>>, msg |-> ""]

Raise(obj, name, x) ==
    [raised |-> TRUE, obj |-> obj, name |-> name, warnings |-> <<>>,
     stmt |-> <<>>, msg |-> x]

\* the name and the object of an argument: the pairs the lookup can give
resolve(e, x) ==
    IF ~x.isstr THEN {<<"None", x.v>>}
    ELSE IF e.ns[<<"sage.all", x.v>>] # Unbound
         THEN {<<x.v, e.ns[<<"sage.all", x.v>>]>>}
         ELSE {<<x.v, e.ns[<<m, x.v>>]>> :
                  m \in {m \in Mods : e.ns[<<m, x.v>>] # Unbound}}

\* mutant: the names of the object are taken in reverse alphabetical order
case2_names_reverse(e, module, name, obj) ==
    IF name = "None" THEN reversed(sorted_names(keys_of(e, module, obj)))
    ELSE IF e.ns[<<module, name>>] # Unbound THEN <<name>>
    ELSE <<>>

\* Case 2: the names under which the statement of the owning module is made
case2_names(e, module, name, obj) ==
    IF name = "None" THEN sorted_names(keys_of(e, module, obj))
    ELSE IF e.ns[<<module, name>>] # Unbound THEN <<name>>
    ELSE <<>>

\* mutant: the search goes through __main__ too
scan_modules_main == Mods

\* the modules the search for the object goes through
scan_modules == Mods \ {"__main__"}

\* names: module -> names of the object in that module
scan_names(e, name, obj) ==
    [module \in scan_modules |->
        IF name # "None"
        THEN IF e.ns[<<module, name>>] = obj THEN {name} ELSE {}
        ELSE keys_of(e, module, obj)]

\* modules with new_module moved to the front
move_front(modules, new_module) ==
    IF \E i \in DOMAIN modules : modules[i] = new_module
    THEN <<new_module>> \o SelectSeq(modules, LAMBDA m : m # new_module)
    ELSE modules

\* the pairs <<module, name>> at which the loop over modules and names can
\* break: the matching names of the first module that has one
first_match(e, modules, names, kind) ==
    LET hit(m) == {n \in names[m] : e.src.kind = kind /\ n = "a" /\ m \in e.src.mods}
        idx == {i \in DOMAIN modules : hit(modules[i]) # {}}
    IN  IF idx = {} THEN {}
        ELSE LET i == CHOOSE i \in idx : \A j \in idx : i <= j
             IN  {<<modules[i], n>> : n \in hit(modules[i])}

\* the search of all modules, Case 3, the alias search and the first pick
scan(e, name0, obj) ==
    LET names == scan_names(e, name0, obj)
        all_names == sorted_names(UNION {names[m] : m \in scan_modules})
        w_names == IF e.verbose /\ Len(all_names) > 1
                   THEN <<Line("several_names", "", "", all_names)>> ELSE <<>>
        modules0 == sorted_modules({m \in scan_modules : names[m] # {}})
        not_all_modules == SelectSeq(modules0, LAMBDA m : ~endswith_all(m))
        inst == isclassinstance(e, obj)
        modules == IF inst THEN move_front(modules0, dot_all(owner_module(e, obj)))
                   ELSE modules0
        case3 == IF inst THEN first_match(e, modules, names, "inst") ELSE {}
        try_alias == case3 = {} /\ Len(not_all_modules) = 0
        alias == IF try_alias THEN first_match(e, modules, names, "alias") ELSE {}
        pick == IF Len(not_all_modules) > 0 THEN not_all_modules[1] ELSE modules[1]
        w_pick(n) ==
            (IF e.verbose /\ Len(not_all_modules) > 0
             THEN <<Line("not_outside_all", "", n, <<>>)>> ELSE <<>>)
            \o (IF e.verbose /\ Len(modules) > 1
                THEN <<Line("several_modules", "", "", SubSeq(modules, 1, IF Len(modules) > 4 THEN 4 ELSE Len(modules)))>>
                ELSE <<>>)
    IN  IF all_names = <<>> THEN {Raise(obj, name0, obj)}
        ELSE IF case3 # {}
        THEN {Stmt(obj, name0, w_names, print_import_statement(p[1], p[2], e.lazy)) :
                 p \in case3}
        ELSE IF alias # {}
        THEN {Stmt(obj, name0,
                   w_names \o (IF e.verbose
                               THEN <<Line("alias", p[1], p[2], <<>>)>> ELSE <<>>),
                   print_import_statement(p[1], p[2], e.lazy)) : p \in alias}
        ELSE {Stmt(obj, name0, w_names \o w_pick(n),
                   print_import_statement(pick, n, e.lazy)) : n \in names[pick]}

\* one round of the loop over the objects, after the lookup of the name
import_object(e, name, obj) ==
    IF ismodule(obj)
    THEN {Stmt(obj, name, <<>>,
               Line(IF e.lazy THEN "lazy_import_module" ELSE "import",
                    "sage.pkg.mod", "", <<>>))}
    ELSE LET module == owner_module(e, obj)
             names == IF module = "None" THEN <<>>
                      ELSE case2_names(e, module, name, obj)
         IN  IF names # <<>>
             THEN {Stmt(obj, name,
                        IF e.verbose /\ Len(names) > 1
                        THEN <<Line("several_names", "", "", names)>> ELSE <<>>,
                        print_import_statement(module, names[1], e.lazy))}
             ELSE scan(e, name, obj)

\* the outcomes of the round for the argument x
import_one(e, x) ==
    IF resolve(e, x) = {} THEN {Raise("None", x.v, x.v)}
    ELSE UNION {import_object(e, p[1], p[2]) : p \in resolve(e, x)}

NoValue == [kind |-> "no value", lines |-> <<>>]

ReturnNone == [kind |-> "None", lines |-> <<>>]

ReturnStr(answer) == [kind |-> "str", lines |-> answer]

ImportOut(status, val, i, answer, printed, log, msg) ==
    [status |-> status, val |-> val, i |-> i, answer |-> answer,
     printed |-> printed, log |-> log, msg |-> msg]

InitImport ==
    /\ pc = "call"
    /\ op = "import_statements"
    /\ out = ImportOut("none", NoValue, 0, <<>>, <<>>, <<>>, "")
    /\ arg \in [objects : UNION {[1..n -> ImportArgs] : n \in 1..MaxObjects},
                lazy : BOOLEAN, verbose : BOOLEAN, answer_as_str : BOOLEAN,
                ns : Namespaces, attr : Attributes, src : Sources_re]

\* print_or_update(string, answer)
print_or_update(o, lines) ==
    IF arg.answer_as_str THEN [o EXCEPT !.answer = @ \o lines]
    ELSE [o EXCEPT !.printed = @ \o lines]

\* the options are read and the header of the lazy imports is written
ImportBegin ==
    /\ pc = "call"
    /\ op = "import_statements"
    /\ pc' = "loop"
    /\ out' = print_or_update([out EXCEPT !.status = "loop"],
                  IF arg.lazy THEN <<Line("lazy_header", "", "", <<>>)>> ELSE <<>>)
    /\ UNCHANGED <<op, arg>>

\* one round of the loop: a statement is written, or ValueError is raised
ImportObject ==
    /\ pc = "loop"
    /\ out.i < Len(arg.objects)
    /\ \E r \in import_one(arg, arg.objects[out.i + 1]) :
          IF r.raised
          THEN /\ pc' = "done"
               /\ out' = [out EXCEPT !.status = "error", !.val = NoValue,
                                     !.msg = r.msg, !.log = @ \o <<r>>]
          ELSE /\ pc' = "loop"
               /\ out' = print_or_update(
                             [out EXCEPT !.i = @ + 1, !.log = @ \o <<r>>,
                                         !.printed = @ \o r.warnings],
                             r.stmt)
    /\ UNCHANGED <<op, arg>>

\* the end of the loop: the answer is returned, or nothing
ImportReturn ==
    /\ pc = "loop"
    /\ out.i = Len(arg.objects)
    /\ pc' = "done"
    /\ out' = [out EXCEPT !.status = "ok",
                          !.val = IF arg.answer_as_str THEN ReturnStr(out.answer)
                                  ELSE ReturnNone]
    /\ UNCHANGED <<op, arg>>

NextImport == ImportBegin \/ ImportObject \/ ImportReturn

SpecImport == InitImport /\ [][NextImport]_vars

(***************************************************************************)
(* Properties of the Hopf operations.                                      *)
(***************************************************************************)
Returned(o) == pc = "done" /\ op = o /\ out.status = "ok"

\* the pairs <<a, b>> of words with a * b = m
Splits(m) ==
    LET w == to_word_list(m)
    IN  {<<WordOf(SubSeq(w, 1, i)), WordOf(SubSeq(w, i + 1, Len(w)))>> :
            i \in 0..Len(w)}

\* C1: coproduct_on_basis is multiplicative: for all basis words a and b,
\* the empty word and words with repeated generators included,
\* coproduct_on_basis(a*b) is the product in the tensor square of
\* coproduct_on_basis(a) and coproduct_on_basis(b).
CoproductMultiplicative ==
    Returned("coproduct_on_basis") =>
        \A s \in Splits(arg) :
            out.val = S_product(coproduct_on_basis(s[1]), coproduct_on_basis(s[2]))

CoproductMultiplicativeWitness ==
    /\ Returned("coproduct_on_basis")
    /\ arg = << <<1, 2>>, <<2, 1>> >>
    /\ out.val[<<FM_gen(1), << <<1, 1>>, <<2, 1>> >> >>] = 2

\* counit applied to one tensor slot of every term of t, the other slot
\* scaled by the result, and the terms summed
Contract(t, slot) ==
    LET it == items(t)
    IN  sum_of_terms([i \in 1..Len(it) |->
            <<it[i][1][3 - slot], it[i][2] * counit(monomial(it[i][1][slot]))>>])

\* C2: the counit axiom: for every element x, counit applied to the left
\* slot of every term of coproduct(x), contracted, gives x; and so it does
\* applied to the right slot.
CounitAxiom ==
    Returned("coproduct") =>
        /\ Contract(out.val, 1) = arg
        /\ Contract(out.val, 2) = arg

CounitAxiomWitness ==
    /\ Returned("coproduct")
    /\ Cardinality(DOMAIN arg) = 2
    /\ \E m \in DOMAIN arg : FM_len(m) = 2 /\ Len(m) = 1
    /\ Cardinality(DOMAIN out.val) > 4

Sign(n) == IF n % 2 = 0 THEN 1 ELSE -1

\* C3: for every basis word m of length n, antipode_on_basis(m) is the
\* single term whose word is the flat generator sequence of m reversed and
\* whose coefficient is (-1)^n, n the total length and not the number of
\* runs, also for words with repeated adjacent generators.
AntipodeReversesWord ==
    Returned("antipode_on_basis") =>
        out.val = term(WordOf(reversed(to_word_list(arg))), Sign(FM_len(arg)))

AntipodeReversesWordWitness ==
    /\ Returned("antipode_on_basis")
    /\ arg = << <<1, 2>>, <<2, 1>> >>
    /\ out.val = term(<< <<2, 1>>, <<1, 2>> >>, -1)

(***************************************************************************)
(* Properties of the construction of elements.                             *)
(***************************************************************************)
Done(o) == pc = "done" /\ op = o

\* the product of the coefficients of f[j] in elts[j]
RECURSIVE ProdCoef(_, _)
ProdCoef(elts, f) ==
    IF elts = <<>> THEN 1
    ELSE DictGet(elts[1], f[1], 0) * ProdCoef(Tail(elts), Tail(f))

\* m is a word in normal form: positive exponents, adjacent runs differ
IsWord(m) ==
    /\ \A i \in 1..Len(m) : m[i][1] \in Indices /\ m[i][2] >= 1
    /\ \A i \in 1..(Len(m) - 1) : m[i][1] # m[i + 1][1]

\* C4: for every non-empty list [x_1,...,x_n] of base-module elements,
\* _tensor_constructor_ returns the element whose coefficient on each word
\* (i_1,...,i_n) is the product of the coefficients of i_j in x_j, with no
\* other terms: no contribution is dropped or counted twice.
TensorConstructorCoefficients ==
    (Done("_tensor_constructor_") /\ arg # <<>>) =>
        /\ out.status = "ok"
        /\ \A f \in [1..Len(arg) -> Indices] :
               DictGet(out.val, WordOf(f), 0) = ProdCoef(arg, f)
        /\ \A m \in DOMAIN out.val :
               IsWord(m) /\ FM_len(m) = Len(arg) /\ out.val[m] # 0

TensorConstructorCoefficientsWitness ==
    /\ Done("_tensor_constructor_")
    /\ Len(arg) = 2
    /\ \A j \in 1..2 : DOMAIN arg[j] = {1, 2}
    /\ Cardinality(DOMAIN out.val) = 4
    /\ out.val[<< <<1, 2>> >>] = -MaxCoef
    /\ out.val[<< <<2, 1>>, <<1, 1>> >>] = MaxCoef * MaxCoef

\* C5: _tensor_constructor_ of the empty list is the unit, the empty word
\* with coefficient 1; of a one-element list [x] it is the canonical
\* embedding of x: each index k of x lifted to the singleton word, with
\* the same coefficient.
TensorConstructorUnitAndEmbedding ==
    Done("_tensor_constructor_") =>
        /\ arg = <<>> => out = Ok(<<>> :> 1)
        /\ Len(arg) = 1 =>
              /\ out = element_constructor([parent |-> "module", val |-> arg[1]])
              /\ DOMAIN out.val = {<< <<k, 1>> >> : k \in DOMAIN arg[1]}
              /\ \A k \in DOMAIN arg[1] : out.val[<< <<k, 1>> >>] = arg[1][k]

TensorConstructorUnitAndEmbeddingWitness ==
    /\ Done("_tensor_constructor_")
    /\ Len(arg) = 1
    /\ DOMAIN arg[1] = {1, 2}
    /\ out.val = (FM_gen(1) :> arg[1][1]) @@ (FM_gen(2) :> arg[1][2])

IsScalar(x) == x.parent \in {"ring", "subring"}

\* C6: the conversion of a base-ring scalar s is s times the unit, on the
\* empty word, and never a generator monomial, also when s equals a member
\* of the index set of the base module: the base ring is tried before the
\* index test of the element constructor.
ScalarIsMultipleOfUnit ==
    (Done("__call__") /\ IsScalar(arg)) =>
        /\ out.status = "ok"
        /\ DOMAIN out.val \subseteq {<<>>}
        /\ DictGet(out.val, <<>>, 0) = arg.val

ScalarIsMultipleOfUnitWitness ==
    /\ Done("__call__")
    /\ arg.parent = "ring"
    /\ arg.val = 1
    /\ 1 \in Indices
    /\ out = Ok(<<>> :> 1)

IsIndexList(x) ==
    x.parent = "list" /\ \A i \in 1..Len(x.val) : x.val[i] \in Indices

\* C7: for every finite sequence of base-module indices i_1,...,i_n, with
\* repeated indices or empty, the element constructor returns the single
\* monomial of the word i_1 ... i_n with coefficient 1, the unit for the
\* empty sequence.
SequenceIsMonomial ==
    (Done("__call__") /\ IsIndexList(arg)) =>
        /\ out.status = "ok"
        /\ \E m \in DOMAIN out.val :
               /\ DOMAIN out.val = {m}
               /\ out.val[m] = 1
               /\ IsWord(m)
               /\ to_word_list(m) = arg.val
        /\ arg.val = <<>> => out.val = one

SequenceIsMonomialWitness ==
    /\ Done("__call__")
    /\ arg.parent = "list"
    /\ arg.val = <<1, 1>>
    /\ out = Ok(<< <<1, 2>> >> :> 1)

\* x is not a sequence of indices, not in the index set, not an element
\* of the base module, not a scalar of the base ring
Unsupported(x) ==
    \/ x.parent = "list" /\ \E i \in 1..Len(x.val) : x.val[i] \notin Indices
    \/ x.parent = "object" /\ x.val \notin Indices

\* C8: the element constructor signals an error, and returns no element,
\* for every input that is not a list or tuple of indices, not a member of
\* the index set, not an element of the base module and not a base-ring
\* scalar.
UnsupportedInputRaises ==
    (Done("__call__") /\ Unsupported(arg)) => out = Error

UnsupportedInputRaisesWitness ==
    /\ Done("__call__")
    /\ arg.parent = "object"
    /\ arg.val = 0
    /\ out.status = "error"

(***************************************************************************)
(* Properties of the coercion query.                                       *)
(***************************************************************************)
IsTensorSource(R) == R.inTP /\ R.cls = "CombinatorialFreeModule_Tensor"

AllFactorsCoerce(R) == \A i \in 1..Len(R.sets) : R.sets[i]

\* C9 as stated: a tensor product of modules has a coercion into T(M) if
\* and only if every one of its factors has a coercion into M.
TensorSourceCoercesIffFactors ==
    (Done("_coerce_map_from_") /\ IsTensorSource(arg)) =>
        (out.val # "None" <=> AllFactorsCoerce(arg))

\* C9 as amended: a tensor product of modules R that neither is nor maps
\* into the base ring or the base module M has a coercion into T(M) if and
\* only if every one of its factors has a coercion into M; when a factor
\* has none the query answers that there is no coercion, without raising.
TensorSourceCoercesIffFactorsUnlessDirect ==
    (/\ Done("_coerce_map_from_")
     /\ IsTensorSource(arg)
     /\ ~(arg.isRing \/ arg.toRing \/ arg.isM \/ arg.toM)) =>
        /\ out.status = "ok"
        /\ out.val # "None" <=> AllFactorsCoerce(arg)
        /\ ~AllFactorsCoerce(arg) => out = Ok("None")

TensorSourceCoercesIffFactorsUnlessDirectWitness ==
    /\ Done("_coerce_map_from_")
    /\ IsTensorSource(arg)
    /\ ~(arg.isRing \/ arg.toRing \/ arg.isM \/ arg.toM)
    /\ arg.sets = <<TRUE, FALSE>>
    /\ out = Ok("None")

(***************************************************************************)
(* Properties of T(f).                                                     *)
(***************************************************************************)
\* T(f) on the basis word m, as the operation o computes it
Tphi(o, f, m) ==
    IF o = "_apply_functor_to_morphism" THEN functor_phi(f, m) ELSE coerce_phi(f, m)

\* C10: the map T(f) of a base-module morphism f, built by the functor and
\* by the coercion between tensor algebras, sends each generator b_k to
\* f(b_k) and the empty word to the unit, and is multiplicative:
\* T(f)(a*b) = T(f)(a) * T(f)(b) for all basis words a, b.
FunctorMorphismMultiplicative ==
    \A o \in {"_apply_functor_to_morphism", "coerce_from_tensor_algebra"} :
        Done(o) =>
            /\ out.status = "ok"
            /\ arg.m = <<>> => out.val = (<<>> :> 1)
            /\ \A k \in Indices :
                   arg.m = << <<k, 1>> >> =>
                       out = element_constructor([parent |-> "module", val |-> arg.f[k]])
            /\ \A s \in Splits(arg.m) :
                   out.val = product(Tphi(o, arg.f, s[1]), Tphi(o, arg.f, s[2]))

FunctorMorphismMultiplicativeWitness ==
    /\ Done("_apply_functor_to_morphism")
    /\ arg.m = << <<1, 2>> >>
    /\ DOMAIN arg.f[1] = {1, 2}
    /\ Cardinality(DOMAIN out.val) = 4

(***************************************************************************)
(* The round trip of construction().                                       *)
(***************************************************************************)
\* C11: round trip of construction(): for every tensor algebra TA,
\* whatever prefix, category or print options it was built with,
\* construction() returns a pair (F, M) with M equal to the base module of
\* TA and F(M) equal to TA.
ConstructionRoundTrip ==
    Returned("construction") =>
        /\ out.val[2] = arg._base_module
        /\ apply_functor(out.val[1], out.val[2]) = Ok(arg)

\* the round trip holds for the algebras built with the default prefix,
\* category and options
ConstructionRoundTripDefaults ==
    (/\ Returned("construction")
     /\ arg = TensorAlgebra(arg._base_module, "T", "None", "absent")) =>
        /\ out.val[2] = arg._base_module
        /\ apply_functor(out.val[1], out.val[2]) = Ok(arg)

(***************************************************************************)
(* Properties of import_statements.                                        *)
(***************************************************************************)
Imported == op = "import_statements"

\* the statement of round k names a module whose namespace binds the name
\* of the statement to the object of the round
StatementCorrect(k) ==
    LET r == out.log[k]
    IN  (~r.raised /\ ~ismodule(r.obj)) =>
            arg.ns[<<r.stmt[1].module, r.stmt[1].name>>] = r.obj

\* C16: every import statement that import_statements emits for an object
\* that is not a module is correct: the namespace of the module it names
\* binds the name it names to the resolved object itself, whichever step
\* produced the statement (owning module with or without a given name,
\* instantiation site, alias, first module).
ImportStatementsCorrect ==
    Imported => \A k \in DOMAIN out.log : StatementCorrect(k)

\* the statements for the arguments given as objects are correct
ImportStatementsCorrectForObjects ==
    Imported =>
        \A k \in DOMAIN out.log : ~arg.objects[k].isstr => StatementCorrect(k)

\* obj is bound to no name in its owning module nor in a loaded module
\* other than __main__
BoundNowhere(obj) ==
    /\ ~ismodule(obj)
    /\ arg.attr.owner # "None" => \A n \in Names : arg.ns[<<arg.attr.owner, n>>] # obj
    /\ \A m \in Mods \ {"__main__"}, n \in Names : arg.ns[<<m, n>>] # obj

\* the argument x has no import statement, and X is what the error names
NoStatementFor(x, X) ==
    IF x.isstr
    THEN \/ X = x.v /\ \A m \in Mods : arg.ns[<<m, x.v>>] = Unbound
         \/ /\ \A m \in Mods \ {"__main__"} : arg.ns[<<m, x.v>>] = Unbound
            /\ X = arg.ns[<<"__main__", x.v>>]
            /\ X # Unbound
            /\ BoundNowhere(X)
    ELSE X = x.v /\ BoundNowhere(X)

\* C17: import_statements raises ValueError 'no import statement for X'
\* when a string name is bound neither in sage.all nor in the namespace of a
\* loaded module, and when an object that is not a module is bound to no
\* name in its owning module nor in a loaded module other than __main__;
\* the call then returns no value, even with answer_as_str=True and with
\* earlier objects already resolved.
ValueErrorWhenNoStatement ==
    Imported =>
        \A k \in DOMAIN arg.objects : \A X \in Objs \cup Names :
            NoStatementFor(arg.objects[k], X) =>
                /\ out.i < k
                /\ (pc = "done" /\ out.i = k - 1) =>
                       /\ out.status = "error"
                       /\ out.msg = X
                       /\ out.val = NoValue

ValueErrorWhenNoStatementWitness ==
    /\ Imported
    /\ pc = "done"
    /\ arg.answer_as_str
    /\ arg.objects = <<[isstr |-> TRUE, v |-> "b"], [isstr |-> FALSE, v |-> "o1"]>>
    /\ arg.ns[<<"__main__", "a">>] = "o1"
    /\ BoundNowhere("o1")
    /\ out.i = 1
    /\ Len(out.answer) = 1
    /\ out.status = "error"
    /\ out.msg = "o1"
    /\ out.val = NoValue

\* the alphabetically smallest name of the set K
Smallest(K) ==
    CHOOSE n \in K : \A n2 \in K : Index(NameOrder, n) <= Index(NameOrder, n2)

SeveralNames(r) == \E i \in DOMAIN r.warnings : r.warnings[i].kind = "several_names"

\* C18: in the owning-module step of import_statements: when the argument
\* is an object bound under several names in its owning module, the
\* statement uses the alphabetically smallest of those names and the
\* 'several names for that object' warning is printed exactly when verbose
\* is true; when the argument is a string name present in the namespace of
\* the owning module, the statement uses exactly that name and no warning
\* is printed.
OwningModuleStep ==
    Imported =>
        \A k \in DOMAIN out.log :
            LET r == out.log[k]
                x == arg.objects[k]
                owner == arg.attr.owner
                K == {n \in Names : arg.ns[<<owner, n>>] = r.obj}
            IN  (r.obj = "o1" /\ owner # "None") =>
                   /\ (~x.isstr /\ Cardinality(K) > 1) =>
                          /\ ~r.raised
                          /\ r.stmt[1].module = owner
                          /\ r.stmt[1].name = Smallest(K)
                          /\ SeveralNames(r) <=> arg.verbose
                   /\ (x.isstr /\ arg.ns[<<owner, x.v>>] # Unbound) =>
                          /\ ~r.raised
                          /\ r.stmt[1].module = owner
                          /\ r.stmt[1].name = x.v
                          /\ r.warnings = <<>>

OwningModuleStepWitness ==
    /\ Imported
    /\ pc = "done"
    /\ arg.verbose
    /\ arg.objects = <<[isstr |-> FALSE, v |-> "o1"], [isstr |-> TRUE, v |-> "b"]>>
    /\ arg.attr.owner = "sage.pkg.mod"
    /\ arg.ns[<<"sage.pkg.mod", "a">>] = "o1"
    /\ arg.ns[<<"sage.pkg.mod", "b">>] = "o1"
    /\ out.status = "ok"
    /\ out.log[1].stmt[1].name = "a"
    /\ SeveralNames(out.log[1])
    /\ out.log[2].stmt[1].name = "b"
    /\ out.log[2].warnings = <<>>

NotOutsideAll(r) ==
    \E i \in DOMAIN r.warnings : r.warnings[i].kind = "not_outside_all"

\* C21: in the fallback selection of import_statements, the warning
\* '<name> does not exist outside all.py files' is printed only when
\* verbose is true and no loaded module other than an aggregator module
\* (name ending in 'all' or 'all_cmdline') binds the object; it is never
\* printed when the chosen module is a non-aggregator module.
NotOutsideAllOnlyForAggregators ==
    Imported =>
        \A k \in DOMAIN out.log :
            LET r == out.log[k]
            IN  NotOutsideAll(r) =>
                   /\ arg.verbose
                   /\ endswith_all(r.stmt[1].module)
                   /\ \A m \in Mods \ {"__main__"}, n \in Names :
                          arg.ns[<<m, n>>] = r.obj => endswith_all(m)

\* what the code does: the warning is printed only when verbose is true
\* and the chosen module is a non-aggregator module binding the object
NotOutsideAllOnlyForNonAggregators ==
    Imported =>
        \A k \in DOMAIN out.log :
            LET r == out.log[k]
            IN  NotOutsideAll(r) =>
                   /\ arg.verbose
                   /\ ~endswith_all(r.stmt[1].module)
                   /\ arg.ns[<<r.stmt[1].module, r.stmt[1].name>>] = r.obj

(***************************************************************************)
(* Properties of the product and of the grading.                           *)
(***************************************************************************)
\* C12: the product on basis words is associative: for all basis words
\* a, b, c, product(product(a,b),c) and product(a,product(b,c)) are the
\* same monomial.
ProductAssociative ==
    Returned("product_on_basis") =>
        \A c \in Words(MaxEltLen) :
            LET l == product(out.val, monomial(c))
                r == product(monomial(arg[1]), product_on_basis(arg[2], c))
            IN  l = r /\ Cardinality(DOMAIN l) = 1

ProductAssociativeWitness ==
    /\ Returned("product_on_basis")
    /\ arg = <<FM_gen(1), << <<1, 1>>, <<2, 1>> >> >>
    /\ product(out.val, monomial(FM_gen(2))) = monomial(<< <<1, 2>>, <<2, 2>> >>)

\* C13: the grading is additive under multiplication: for all basis words
\* a and b, degree_on_basis of the word of product_on_basis(a,b) is
\* degree_on_basis(a) + degree_on_basis(b), the degree being the total
\* length of the word, repeated generators counted.
DegreeAdditive ==
    Returned("product_on_basis") =>
        /\ \A m \in DOMAIN out.val :
               degree_on_basis(m) = degree_on_basis(arg[1]) + degree_on_basis(arg[2])
        /\ \A i \in 1..2 : degree_on_basis(arg[i]) = Len(to_word_list(arg[i]))

DegreeAdditiveWitness ==
    /\ Returned("product_on_basis")
    /\ arg = <<FM_gen(1), FM_gen(1)>>
    /\ out.val = monomial(<< <<1, 2>> >>)
    /\ degree_on_basis(<< <<1, 2>> >>) = 2

(***************************************************************************)
(* Properties of the Hopf structure.                                       *)
(***************************************************************************)
\* C14: the antipode is an involution on basis words: for every basis
\* word m, the antipode, extended linearly, of antipode_on_basis(m) is the
\* monomial m with coefficient +1.
AntipodeInvolution ==
    Returned("antipode_on_basis") => antipode(out.val) = (arg :> 1)

AntipodeInvolutionWitness ==
    /\ Returned("antipode_on_basis")
    /\ arg = << <<1, 2>>, <<2, 1>> >>
    /\ out.val = (<< <<2, 1>>, <<1, 2>> >> :> -1)
    /\ antipode(out.val) = (arg :> 1)

\* the element t of the tensor square with its two slots exchanged
Swap(t) ==
    LET it == items(t)
    IN  sum_of_terms([i \in 1..Len(it) |-> << <<it[i][1][2], it[i][1][1]>>, it[i][2]>>])

\* C15: the coproduct is cocommutative: for every basis word m, exchanging
\* the two tensor slots in every term of coproduct_on_basis(m) gives
\* coproduct_on_basis(m) back, same terms and same coefficients.
CoproductCocommutative ==
    Returned("coproduct_on_basis") => Swap(out.val) = out.val

CoproductCocommutativeWitness ==
    /\ Returned("coproduct_on_basis")
    /\ arg = << <<1, 1>>, <<2, 1>> >>
    /\ out.val[<<FM_gen(1), FM_gen(2)>>] = 1
    /\ out.val[<<FM_gen(2), FM_gen(1)>>] = 1

\* the subword of the flat word w at the positions P, in order
RECURSIVE SubWord(_, _)
SubWord(w, P) ==
    IF w = <<>> THEN <<>>
    ELSE SubWord(SubSeq(w, 1, Len(w) - 1), P)
         \o (IF Len(w) \in P THEN <<w[Len(w)]>> ELSE <<>>)

\* the term of the split of the flat word w at the positions P
SplitTerm(w, P) ==
    <<WordOf(SubWord(w, P)), WordOf(SubWord(w, (1..Len(w)) \ P))>>

\* the sum over all sets P of positions of the terms of the splits of w
SplitFormula(w) ==
    LET Ps == SUBSET (1..Len(w))
        keys == {SplitTerm(w, P) : P \in Ps}
    IN  [k \in keys |-> Cardinality({P \in Ps : SplitTerm(w, P) = k})]

\* C19: for every basis word m of length n, coproduct_on_basis(m) is the
\* direct split formula: the sum over the 2^n sets S of positions of
\* (subword of m at S) tensor (subword at the other positions), the
\* coefficients of coinciding terms added.
CoproductIsSplitFormula ==
    Returned("coproduct_on_basis") =>
        out.val = SplitFormula(to_word_list(arg))

CoproductIsSplitFormulaWitness ==
    /\ Returned("coproduct_on_basis")
    /\ arg = << <<1, 3>> >>
    /\ out.val[<<FM_gen(1), << <<1, 2>> >> >>] = 3
    /\ Cardinality(DOMAIN out.val) = 4

\* the sum of coeff * antipode(l) * r, or of coeff * l * antipode(r), over
\* the terms coeff * (l tensor r) of t
RECURSIVE Convolve(_, _)
Convolve(it, slot) ==
    IF it = <<>> THEN Zero
    ELSE LET l == it[Len(it)][1][1]
             r == it[Len(it)][1][2]
         IN  axpy(Convolve(SubSeq(it, 1, Len(it) - 1), slot),
                  it[Len(it)][2],
                  IF slot = 1 THEN product(antipode_on_basis(l), monomial(r))
                              ELSE product(monomial(l), antipode_on_basis(r)))

\* C20: the antipode axiom: for every basis word m, the sum of
\* coeff * antipode(l) * r over the terms coeff * (l tensor r) of
\* coproduct_on_basis(m) is the unit when m is the empty word and zero
\* otherwise; and so is the sum of coeff * l * antipode(r).
AntipodeAxiom ==
    Returned("coproduct_on_basis") =>
        \A slot \in 1..2 :
            Convolve(items(out.val), slot) = IF arg = <<>> THEN (<<>> :> 1) ELSE <<>>

AntipodeAxiomWitness ==
    /\ Returned("coproduct_on_basis")
    /\ arg = << <<1, 1>>, <<2, 1>>, <<1, 1>> >>
    /\ Cardinality(DOMAIN out.val) = 8
    /\ Convolve(items(out.val), 1) = Zero

====
